---------------------------- MODULE Spec2Model ----------------------------
(***************************************************************************)
(* HCM-tools download orchestration engine.                                *)
(*                                                                         *)
(*   core/retry.py         with_retry            (specification SpecRetry) *)
(*   core/rate_limiter.py  RateLimiter.acquire   (specification SpecRL)    *)
(*   core/downloader.py    BulkDownloader.run, _scrape_all, _worker,       *)
(*                         _handle_session_timeout                         *)
(*   core/db.py            DownloadDB            (specifications Spec,     *)
(*   main.py               _run                   SpecLive, SpecResume)    *)
(*   core/db.py            DownloadDB on its own (specification SpecDB)    *)
(*                                                                         *)
(* The program is asyncio code: a coroutine runs without interruption      *)
(* from one suspending await to the next, so every action below is the     *)
(* code between two suspension points of one coroutine.                    *)
(***************************************************************************)
EXTENDS Integers, Sequences, FiniteSets, TLC

VARIABLES
    \* ---- with_retry (core/retry.py) ----
    rt,             \* one call of with_retry: arguments, loop position, outcome
    \* ---- RateLimiter (core/rate_limiter.py) ----
    clock,          \* time.monotonic(), in ticks
    rl,             \* the limiter: _slots, _lock, its callers and their positions
    \* ---- DownloadDB (core/db.py) ----
    documents,      \* table documents: id -> row
    run_state,      \* table run_state: << >>, or << value of key last_page >>
    \* ---- BulkDownloader (core/downloader.py) ----
    run,            \* run / _scrape_all: position and locals of the coordinator
    queue,          \* the asyncio.Queue of DocumentRecords
    session_ok,     \* the asyncio.Event _session_ok (TRUE = set)
    reauth_lock,    \* the asyncio.Lock _reauth_lock: holder and FIFO waiters
    wk,             \* per worker: position, record, attempt, tallies, page state
    \* ---- environment and history ----
    env,            \* the portal: the listing, whether the session is valid
    hist,           \* history: prompts, gate toggles, finalised records
    \* ---- a client of DownloadDB alone (specification SpecDB) ----
    dbcall          \* the last DownloadDB call made: method, id, how many so far

vars == << rt, clock, rl, documents, run_state, run, queue, session_ok,
           reauth_lock, wk, env, hist, dbcall >>

mainVars == << documents, run_state, run, queue, session_ok, reauth_lock,
              wk, env, hist >>

NULL == "NULL"

Min(a, b) == IF a <= b THEN a ELSE b

RECURSIVE Pow2(_)
Pow2(n) == IF n <= 0 THEN 1 ELSE 2 * Pow2(n - 1)

RECURSIVE SumSeq(_)
SumSeq(s) == IF s = << >> THEN 0 ELSE Head(s) + SumSeq(Tail(s))

SeqToSet(s) == { s[i] : i \in 1..Len(s) }

CountIn(s, x) == Cardinality({ i \in 1..Len(s) : s[i] = x })


(***************************************************************************)
(* core/retry.py : with_retry                                              *)
(*                                                                         *)
(* The operation fn is a fixed script op: its i-th invocation returns the  *)
(* value i (op[i] = "ok") or raises the error i (op[i] = "err").  Error 0  *)
(* is the RuntimeError("No attempts made") that with_retry builds itself.  *)
(* Delays are in milliseconds.                                             *)
(***************************************************************************)
MaxAttemptsR == 4                      \* largest max_attempts tried
BaseDelays   == {1000, 2000}           \* base_delay values tried (2000 is the default)
MaxDelays    == {3000, 60000}          \* max_delay values tried (60000 is the default)
JitterPct    == {50, 100, 149}         \* 100 * (0.5 + random.random())
Outcomes     == {"ok", "err"}
NoAttemptsMade == 0

RetryIdle == [pc |-> "idle"]

\* range(1, max_attempts + 1)
AttemptRange_short(max_attempts) == 1..(max_attempts - 1)
AttemptRange(max_attempts) == 1..max_attempts

\* delay = min(base_delay * (2 ** (attempt - 1)), max_delay)
BackoffDelay_uncapped(attempt, base_delay, max_delay) ==
    base_delay * Pow2(attempt - 1)
BackoffDelay(attempt, base_delay, max_delay) ==
    Min(base_delay * Pow2(attempt - 1), max_delay)

\* if jitter: delay *= 0.5 + random.random()
JitteredDelays(delay, jitter) ==
    IF jitter THEN { (delay * f) \div 100 : f \in JitterPct } ELSE {delay}

\* if attempt == max_attempts: ... break
LastAttempt_never(attempt, max_attempts) == FALSE
LastAttempt(attempt, max_attempts) == attempt = max_attempts

\* what the except-clause stores in last_exc
Caught_first(last_exc, exc) == IF last_exc = NoAttemptsMade THEN exc ELSE last_exc
Caught(last_exc, exc) == exc

InitRetryCall ==
    rt \in [ pc           : {"start"},
             max_attempts : 0..MaxAttemptsR,
             base_delay   : BaseDelays,
             max_delay    : MaxDelays,
             jitter       : BOOLEAN,
             op           : [1..MaxAttemptsR -> Outcomes],
             attempt      : {0},
             calls        : {0},
             last_exc     : {NoAttemptsMade},
             result       : {-1},
             raised       : {-1},
             delays       : {<< >>} ]

\* entering the for loop, or leaving it at once when the range is empty
RetryStart ==
    /\ rt.pc = "start"
    /\ rt' = IF 1 \in AttemptRange(rt.max_attempts)
             THEN [rt EXCEPT !.pc = "call", !.attempt = 1]
             ELSE [rt EXCEPT !.pc = "raised", !.raised = rt.last_exc]
    /\ UNCHANGED << clock, rl, dbcall, mainVars >>

\* return await fn()   /   except Exception as exc: ...
RetryCall ==
    /\ rt.pc = "call"
    /\ LET n == rt.calls + 1 IN
       IF rt.op[n] = "ok"
       THEN rt' = [rt EXCEPT !.pc = "returned", !.calls = n, !.result = n]
       ELSE LET exc == Caught(rt.last_exc, n) IN
            IF LastAttempt(rt.attempt, rt.max_attempts)
            THEN \* break; raise last_exc
                 rt' = [rt EXCEPT !.pc = "raised", !.calls = n,
                                  !.last_exc = exc, !.raised = exc]
            ELSE \E d \in JitteredDelays(
                        BackoffDelay(rt.attempt, rt.base_delay, rt.max_delay),
                        rt.jitter) :
                 rt' = [rt EXCEPT !.pc = "sleep", !.calls = n, !.last_exc = exc,
                                  !.delays = Append(rt.delays, d)]
    /\ UNCHANGED << clock, rl, dbcall, mainVars >>

\* await asyncio.sleep(delay) returns; the loop takes the next attempt
RetrySleep ==
    /\ rt.pc = "sleep"
    /\ rt' = IF rt.attempt + 1 \in AttemptRange(rt.max_attempts)
             THEN [rt EXCEPT !.pc = "call", !.attempt = rt.attempt + 1]
             ELSE [rt EXCEPT !.pc = "raised", !.raised = rt.last_exc]
    /\ UNCHANGED << clock, rl, dbcall, mainVars >>

RetryFinished == rt.pc \in {"returned", "raised"}


(***************************************************************************)
(* core/rate_limiter.py : RateLimiter                                      *)
(*                                                                         *)
(* Time is discrete: clock is time.monotonic() in ticks and the window is  *)
(* RateWindow ticks.  asyncio.sleep(d) returns at some time >= now + d.    *)
(* asyncio.Lock is FIFO: release hands the lock to the first waiter, which *)
(* runs its critical section when the event loop next schedules it.        *)
(***************************************************************************)
NCallers    == 2        \* concurrent callers of acquire
MaxCallsRL  == 2        \* largest max_calls tried
RateWindow  == 3        \* window, in ticks
MaxTime     == 7        \* the clock stops here
MaxAcquires == 6        \* calls of acquire made in one behaviour

Callers == 1..NCallers

RLIdle == [pc |-> [c \in Callers |-> "idle"]]

\* while self._slots and self._slots[0] <= now - self.window: popleft()
RECURSIVE DropAged(_, _)
DropAged(slots, now) ==
    IF slots # << >> /\ Head(slots) <= now - RateWindow
    THEN DropAged(Tail(slots), now)
    ELSE slots

\* wait = (self._slots[0] + self.window) - now
WaitFor_short(slots, now) == (Head(slots) + RateWindow) - now - 1
WaitFor(slots, now) == (Head(slots) + RateWindow) - now

\* __aexit__ of "async with self._lock": the first waiter is woken with the lock
RLRelease_nowake(r) == [r EXCEPT !.holder = 0]
RLRelease(r) ==
    IF r.waiters = << >>
    THEN [r EXCEPT !.holder = 0]
    ELSE [r EXCEPT !.holder = Head(r.waiters), !.waiters = Tail(r.waiters),
                   !.pc[Head(r.waiters)] = "locked"]

\* self._slots.append(time.monotonic()), then the lock is released and acquire returns
RLAppend(r, c, slots) ==
    RLRelease([r EXCEPT !.slots = Append(slots, clock),
                        !.log = Append(r.log, clock),
                        !.got[c] = TRUE,
                        !.pc[c] = "idle"])

\* the body of "async with self._lock" up to the sleep or to the end
RLCritical(r, c) ==
    LET now   == clock
        slots == DropAged(r.slots, now)
    IN  IF Len(slots) >= r.max_calls
        THEN LET wait == WaitFor(slots, now) IN
             IF wait > 0
             THEN [r EXCEPT !.slots = slots, !.pc[c] = "sleep",
                            !.wake[c] = now + wait]
             ELSE RLAppend(r, c, Tail(slots))
        ELSE RLAppend(r, c, slots)

InitRateLimiter ==
    /\ clock = 0
    /\ rl \in [ max_calls : 1..MaxCallsRL,      \* __init__ rejects max_calls < 1
                slots     : {<< >>},
                holder    : {0},
                waiters   : {<< >>},
                pc        : {[c \in Callers |-> "idle"]},
                wake      : {[c \in Callers |-> 0]},
                log       : {<< >>},                  \* times at which acquire returned
                got       : {[c \in Callers |-> FALSE]},  \* acquire has returned to c
                att       : {[c \in Callers |-> 0]},  \* failed invocations of c's with_retry call
                next      : {[c \in Callers |-> 0]},  \* end of c's back-off sleep
                dl        : {<< >>} ]                 \* times at which a download was invoked

\* a caller calls acquire(): it enters at once when the lock is free, else it queues
RLCall(c) ==
    /\ rl.pc[c] = "idle"
    /\ Len(rl.log) + Cardinality({d \in Callers : rl.pc[d] # "idle"}) < MaxAcquires
    /\ rl' = IF rl.holder = 0 /\ rl.waiters = << >>
             THEN RLCritical([rl EXCEPT !.holder = c, !.got[c] = FALSE], c)
             ELSE [rl EXCEPT !.pc[c] = "lock_wait", !.got[c] = FALSE,
                             !.waiters = Append(rl.waiters, c)]
    /\ UNCHANGED clock
    /\ UNCHANGED << rt, dbcall, mainVars >>

\* a woken waiter runs: it now owns the lock
RLEnter(c) ==
    /\ rl.pc[c] = "locked"
    /\ rl' = RLCritical(rl, c)
    /\ UNCHANGED clock
    /\ UNCHANGED << rt, dbcall, mainVars >>

\* await asyncio.sleep(wait) returns: popleft(), append, release
RLWake(c) ==
    /\ rl.pc[c] = "sleep"
    /\ clock >= rl.wake[c]
    /\ rl' = RLAppend(rl, c, Tail(rl.slots))
    /\ UNCHANGED clock
    /\ UNCHANGED << rt, dbcall, mainVars >>

Tick ==
    /\ clock < MaxTime
    /\ clock' = clock + 1
    /\ UNCHANGED rl
    /\ UNCHANGED << rt, dbcall, mainVars >>

\* Time going on past MaxTime: the clock reading stays at MaxTime and every
\* stored time is moved one tick into the past instead.  A time that reaches 0
\* is at least MaxTime ticks old, older than the window, and stays 0; the
\* histories log and dl forget the entries that old.
Earlier(t) == IF t > 0 THEN t - 1 ELSE 0

NotYetOld(t) == t > 0

EarlierAll(times) ==
    LET kept == SelectSeq(times, NotYetOld) IN
    [i \in 1..Len(kept) |-> Earlier(kept[i])]

TickShift ==
    /\ clock = MaxTime
    /\ rl' = [rl EXCEPT !.slots = [i \in 1..Len(@) |-> Earlier(@[i])],
                        !.log   = EarlierAll(@),
                        !.dl    = EarlierAll(@),
                        !.wake  = [c \in Callers |-> Earlier(@[c])],
                        !.next  = [c \in Callers |-> Earlier(@[c])]]
    /\ UNCHANGED clock
    /\ UNCHANGED << rt, dbcall, mainVars >>

\* ---- the limiter as _worker uses it: one acquire, then with_retry ----------
ThMaxAttempts == 2      \* retry.max_attempts of the workers in SpecThrottle
BackoffTicks  == 1      \* shortest back-off sleep of with_retry, in ticks
ThMaxRecords  == 3      \* records the workers of SpecThrottle process in all

\* await self.rate_limiter.acquire(), called by a worker for its next record
ThAcquire(c) ==
    /\ ~ rl.got[c]
    /\ Len(rl.log) + Cardinality({d \in Callers : rl.pc[d] # "idle"}) < ThMaxRecords
    /\ RLCall(c)

\* with_retry invokes adapter.download_document: the first time after acquire
\* and mark_in_progress have returned, again after each back-off sleep; no
\* slot is acquired for a retry
ThInvoke(c) ==
    /\ rl.got[c]
    /\ rl.pc[c] = "idle"
    /\ clock >= rl.next[c]
    /\ \E ok \in BOOLEAN :
         rl' = IF ok \/ rl.att[c] + 1 = ThMaxAttempts
               THEN [rl EXCEPT !.dl = Append(@, clock), !.got[c] = FALSE,
                               !.att[c] = 0, !.next[c] = 0]
               ELSE [rl EXCEPT !.dl = Append(@, clock), !.att[c] = @ + 1,
                               !.next[c] = clock + BackoffTicks]
    /\ UNCHANGED clock
    /\ UNCHANGED << rt, dbcall, mainVars >>

\* download invocations started in the half-open window (t - window, t]
InvokedIn(t) == { i \in 1..Len(rl.dl) : rl.dl[i] > t - RateWindow /\ rl.dl[i] <= t }

\* acquisitions completed in the half-open window (t - window, t]
AcquiredIn(t) == { i \in 1..Len(rl.log) : rl.log[i] > t - RateWindow /\ rl.log[i] <= t }


(***************************************************************************)
(* core/db.py : DownloadDB                                                 *)
(*                                                                         *)
(* documents is the table keyed by id; a row keeps the columns the         *)
(* orchestration reads or writes.  Timestamps, paths and error texts are   *)
(* kept as "set" values or NULL.                                           *)
(***************************************************************************)
STATUS_PENDING     == "pending"
STATUS_IN_PROGRESS == "in_progress"
STATUS_COMPLETED   == "completed"
STATUS_FAILED      == "failed"

\* the row INSERT builds: the given columns, discovered_at = _now(), and the
\* schema's defaults for the others
NewRow(rec, now) ==
    [ listing_page  |-> rec.listing_page,
      row_index     |-> rec.row_index,
      status        |-> STATUS_PENDING,
      attempts      |-> 0,
      last_error    |-> NULL,
      file_path     |-> NULL,
      discovered_at |-> now,
      completed_at  |-> NULL ]

\* INSERT OR IGNORE INTO documents (...) VALUES (...); id is the PRIMARY KEY.
\* now is the value of _now() at the call.
register_document_replace(docs, rec, now) ==
    [i \in DOMAIN docs \cup {rec.id} |-> IF i = rec.id THEN NewRow(rec, now) ELSE docs[i]]
register_document(docs, rec, now) ==
    IF rec.id \in DOMAIN docs
    THEN docs
    ELSE [i \in DOMAIN docs \cup {rec.id} |->
            IF i = rec.id THEN NewRow(rec, now) ELSE docs[i]]

\* SELECT 1 FROM documents WHERE id=? AND status='completed'
is_completed_started(docs, id) ==
    id \in DOMAIN docs /\ docs[id].status # STATUS_PENDING
is_completed(docs, id) ==
    id \in DOMAIN docs /\ docs[id].status = STATUS_COMPLETED

get_attempts(docs, id) == IF id \in DOMAIN docs THEN docs[id].attempts ELSE 0

\* UPDATE documents SET status='in_progress', attempts=attempts+1 WHERE id=?
mark_in_progress_all(docs, id) ==
    [i \in DOMAIN docs |-> [docs[i] EXCEPT !.status = STATUS_IN_PROGRESS,
                                           !.attempts = @ + 1]]
mark_in_progress(docs, id) ==
    IF id \in DOMAIN docs
    THEN [docs EXCEPT ![id].status = STATUS_IN_PROGRESS,
                      ![id].attempts = @ + 1]
    ELSE docs

\* UPDATE documents SET status='completed', file_path=?, completed_at=?, last_error=NULL
mark_completed(docs, id, file_path, now) ==
    IF id \in DOMAIN docs
    THEN [docs EXCEPT ![id].status = STATUS_COMPLETED,
                      ![id].file_path = file_path,
                      ![id].completed_at = now,
                      ![id].last_error = NULL]
    ELSE docs

\* UPDATE documents SET status='failed', last_error=? WHERE id=?
mark_failed_reset(docs, id, error) ==
    IF id \in DOMAIN docs
    THEN [docs EXCEPT ![id].status = STATUS_FAILED,
                      ![id].last_error = error,
                      ![id].attempts = 0]
    ELSE docs
mark_failed(docs, id, error) ==
    IF id \in DOMAIN docs
    THEN [docs EXCEPT ![id].status = STATUS_FAILED,
                      ![id].last_error = error]
    ELSE docs

\* SELECT value FROM run_state WHERE key='last_page'; 1 when there is no row
get_last_page(rs) == IF rs = << >> THEN 1 ELSE rs[1]

\* INSERT OR REPLACE INTO run_state (key, value) VALUES ('last_page', ?)
set_last_page_none(rs, page) == rs
set_last_page(rs, page) == << page >>

NoDocuments == [i \in {} |-> NULL]

\* DELETE FROM documents; DELETE FROM run_state
reset_documents_only(docs, rs) == [documents |-> NoDocuments, run_state |-> rs]
reset(docs, rs) == [documents |-> NoDocuments, run_state |-> << >>]

CountStatus(docs, st) == Cardinality({ i \in DOMAIN docs : docs[i].status = st })

\* get_summary: the four counts
get_summary(docs) ==
    [ completed   |-> CountStatus(docs, STATUS_COMPLETED),
      failed      |-> CountStatus(docs, STATUS_FAILED),
      in_progress |-> CountStatus(docs, STATUS_IN_PROGRESS),
      pending     |-> CountStatus(docs, STATUS_PENDING) ]


(***************************************************************************)
(* DownloadDB driven directly: a client calls register_document,           *)
(* mark_in_progress, mark_completed, mark_failed and set_last_page in any  *)
(* order with any arguments.  _now() gives a later or equal time at each   *)
(* call; two values are enough to see a timestamp change.                  *)
(***************************************************************************)
MaxDbCalls == 5         \* calls made in one behaviour

DbRecords == { [id |-> "a", listing_page |-> 1, row_index |-> 0],
               [id |-> "a", listing_page |-> 2, row_index |-> 1],
               [id |-> "b", listing_page |-> 1, row_index |-> 1] }
DbIds     == { r.id : r \in DbRecords }
DbTimes   == { "t1", "t2" }
DbPaths   == { "p1", "p2" }
DbErrors  == { "e1", "e2" }
DbPages   == 1..2

DbUnused == dbcall = [op |-> "none", id |-> NULL, page |-> 0, rows |-> 0, n |-> 0]

\* page is the listing_page or page argument of the call, 0 when it has none;
\* rows is the number of rows the table had when the call was made
DbCalled(op, id, page) ==
    dbcall' = [op |-> op, id |-> id, page |-> page,
               rows |-> Cardinality(DOMAIN documents), n |-> dbcall.n + 1]

InitDb ==
    /\ documents = NoDocuments
    /\ run_state = << >>
    /\ dbcall = [op |-> "open", id |-> NULL, page |-> 0, rows |-> 0, n |-> 0]

DbRegister ==
    /\ dbcall.n < MaxDbCalls
    /\ \E rec \in DbRecords, now \in DbTimes :
         /\ documents' = register_document(documents, rec, now)
         /\ DbCalled("register_document", rec.id, rec.listing_page)
    /\ UNCHANGED << run_state, run, queue, session_ok, reauth_lock, wk, env, hist >>
    /\ UNCHANGED << rt, clock, rl >>

DbMarkInProgress ==
    /\ dbcall.n < MaxDbCalls
    /\ \E id \in DbIds :
         /\ documents' = mark_in_progress(documents, id)
         /\ DbCalled("mark_in_progress", id, 0)
    /\ UNCHANGED << run_state, run, queue, session_ok, reauth_lock, wk, env, hist >>
    /\ UNCHANGED << rt, clock, rl >>

DbMarkCompleted ==
    /\ dbcall.n < MaxDbCalls
    /\ \E id \in DbIds, path \in DbPaths, now \in DbTimes :
         /\ documents' = mark_completed(documents, id, path, now)
         /\ DbCalled("mark_completed", id, 0)
    /\ UNCHANGED << run_state, run, queue, session_ok, reauth_lock, wk, env, hist >>
    /\ UNCHANGED << rt, clock, rl >>

DbMarkFailed ==
    /\ dbcall.n < MaxDbCalls
    /\ \E id \in DbIds, error \in DbErrors :
         /\ documents' = mark_failed(documents, id, error)
         /\ DbCalled("mark_failed", id, 0)
    /\ UNCHANGED << run_state, run, queue, session_ok, reauth_lock, wk, env, hist >>
    /\ UNCHANGED << rt, clock, rl >>

DbReset ==
    /\ dbcall.n < MaxDbCalls
    /\ documents' = reset(documents, run_state).documents
    /\ run_state' = reset(documents, run_state).run_state
    /\ DbCalled("reset", NULL, 0)
    /\ UNCHANGED << run, queue, session_ok, reauth_lock, wk, env, hist >>
    /\ UNCHANGED << rt, clock, rl >>

DbSetLastPage ==
    /\ dbcall.n < MaxDbCalls
    /\ \E page \in DbPages :
         /\ run_state' = set_last_page(run_state, page)
         /\ DbCalled("set_last_page", NULL, page)
    /\ UNCHANGED << documents, run, queue, session_ok, reauth_lock, wk, env, hist >>
    /\ UNCHANGED << rt, clock, rl >>


(***************************************************************************)
(* The portal (adapters/base.py, adapters/adp_vantage.py) as the           *)
(* orchestrator sees it: a fixed paginated listing, and an authenticated   *)
(* session that may expire and is restored by the human at the prompt.     *)
(***************************************************************************)
NWorkers     == 2       \* concurrency.workers
max_attempts == 2       \* retry.max_attempts
MaxExpiry    == 1       \* session expiries in one process
MaxRuns      == 2       \* processes started in one behaviour (SpecResume)

Workers == 1..NWorkers

\* the listings tried: pages of rows, each row named by the id _make_id gives it
Listings == { << << "a", "b" >>, << "c" >> >>,
              << << "a" >>, << "a" >> >> }

NPages(listing) == Len(listing)

\* get_documents_on_page(listing_page): the rows of the page the adapter is on,
\* each stamped with the page number it was passed and its row index (0-based)
get_documents_on_page(listing, cur_page, listing_page) ==
    [ i \in 1..Len(listing[cur_page]) |->
        [ id |-> listing[cur_page][i],
          listing_page |-> listing_page,
          row_index |-> i - 1 ] ]

\* has_next_page()
has_next_page(listing, cur_page) == cur_page < NPages(listing)

RECURSIVE AllListed(_, _)
\* every record of the listing from page p on, in listing order
AllListed(listing, p) ==
    IF p > NPages(listing) THEN << >>
    ELSE get_documents_on_page(listing, p, p) \o AllListed(listing, p + 1)

DistinctIds(listing) ==
    LET all == AllListed(listing, 1) IN
    \A i, j \in 1..Len(all) : all[i].id = all[j].id => i = j

NoRecord == [id |-> NULL, listing_page |-> 0, row_index |-> 0]

\* bag of records: r -> how often
BagAdd(b, r) ==
    IF r \in DOMAIN b THEN [b EXCEPT ![r] = @ + 1]
    ELSE [x \in DOMAIN b \cup {r} |-> IF x = r THEN 1 ELSE b[x]]

BagCount(b, r) == IF r \in DOMAIN b THEN b[r] ELSE 0

EmptyBag == [x \in {} |-> 0]


(***************************************************************************)
(* core/downloader.py : BulkDownloader, and main.py : _run                 *)
(***************************************************************************)
IdleWorker ==
    [ pc |-> "idle", record |-> NoRecord, attempt |-> 0,
      downloaded |-> 0, skipped |-> 0, failed |-> 0 ]

NoHistory ==
    [ prompts   |-> 0,                        \* executions of _prompt_reauth
      closes    |-> [w \in Workers |-> 0],    \* _session_ok.clear() by w in its handler
      opens     |-> [w \in Workers |-> 0],    \* _session_ok.set() by w in its handler
      scraped   |-> << >>,                    \* records _scrape_all put on the queue
      finalised |-> EmptyBag,                 \* records counted downloaded/skipped/failed
      invoked   |-> EmptyBag,                 \* id -> invocations of download_document
      anyError  |-> FALSE ]                   \* some download attempt has failed

\* _run after db.open(): BulkDownloader.__init__ and the call of run(start_page)
NewProcess(n, start_page, resume, fresh) ==
    /\ run' = [ pc |-> "start", n |-> n, start_page |-> start_page,
                resume |-> resume, fresh |-> fresh,
                page_num |-> 0, cur_page |-> 0, records |-> << >>,
                total |-> 0, result |-> << >> ]
    /\ queue' = << >>
    /\ session_ok' = TRUE                     \* self._session_ok.set()
    /\ reauth_lock' = [holder |-> 0, waiters |-> << >>]
    /\ wk' = [w \in Workers |-> IdleWorker]
    /\ hist' = NoHistory

\* ---- Phase 1: _scrape_all ------------------------------------------------

\* for _ in range(start_page - 1): if not has_next_page(): break; go_to_next_page()
FastForward(listing, start_page) == Min(start_page, NPages(listing))

\* navigate_to_documents(), the fast-forward loop, page_num = start_page, total = 0
ScrapeStart ==
    /\ run.pc = "start"
    /\ run' = [run EXCEPT !.pc = "page",
                          !.cur_page = FastForward(env.listing, run.start_page),
                          !.page_num = run.start_page,
                          !.total = 0]
    /\ UNCHANGED << documents, run_state, queue, session_ok, reauth_lock, wk, env, hist >>
    /\ UNCHANGED << rt, clock, rl, dbcall >>

\* top of the while loop: set_last_page(page_num); records = get_documents_on_page(page_num)
ScrapePage ==
    /\ run.pc = "page"
    /\ run_state' = set_last_page(run_state, run.page_num)
    /\ run' = [run EXCEPT !.pc = "records",
                          !.records = get_documents_on_page(env.listing, run.cur_page,
                                                            run.page_num)]
    /\ UNCHANGED << documents, queue, session_ok, reauth_lock, wk, env, hist >>
    /\ UNCHANGED << rt, clock, rl, dbcall >>

\* if not await self.db.is_completed(record.id): await queue.put(record)
ScrapeEnqueue_always(docs, q, rec) == Append(q, rec)
ScrapeEnqueue(docs, q, rec) ==
    IF ~ is_completed(docs, rec.id) THEN Append(q, rec) ELSE q

\* one turn of "for record in records": register, enqueue unless completed, total += 1
ScrapeRecord ==
    /\ run.pc = "records"
    /\ run.records # << >>
    /\ LET rec  == Head(run.records)
           docs == register_document(documents, rec, "ts")
           q    == ScrapeEnqueue(docs, queue, rec)
       IN  /\ documents' = docs
           /\ queue' = q
           /\ hist' = [hist EXCEPT !.scraped = @ \o SubSeq(q, Len(queue) + 1, Len(q))]
           /\ run' = [run EXCEPT !.records = Tail(run.records), !.total = @ + 1]
    /\ UNCHANGED << run_state, session_ok, reauth_lock, wk, env >>
    /\ UNCHANGED << rt, clock, rl, dbcall >>

\* run creates the worker tasks after "total = await self._scrape_all(...)"
\* has returned, that is when the scrape loop has found no next page
CreateTasksWhen_early(more) == TRUE
CreateTasksWhen(more) == ~ more

\* after the for loop: go to the next page, or return total and create the worker tasks
ScrapeNext ==
    /\ run.pc = "records"
    /\ run.records = << >>
    /\ LET more == has_next_page(env.listing, run.cur_page) IN
       /\ run' = IF more
                 THEN [run EXCEPT !.pc = "page", !.cur_page = @ + 1, !.page_num = @ + 1]
                 ELSE [run EXCEPT !.pc = "workers"]
       /\ wk' = IF CreateTasksWhen(more)
                THEN [w \in Workers |-> [wk[w] EXCEPT !.pc = "new_page"]]
                ELSE wk
    /\ UNCHANGED << documents, run_state, queue, session_ok, reauth_lock, env, hist >>
    /\ UNCHANGED << rt, clock, rl, dbcall >>


\* ---- Phase 2: _worker ----------------------------------------------------
(***************************************************************************)
(* A worker's pc names the await it is suspended in; the action of that    *)
(* name is the awaited call taking effect followed by the worker's code up *)
(* to its next suspension.  Awaits that do not suspend (queue.put on the   *)
(* unbounded queue, _session_ok.wait() on a set event, acquiring a free    *)
(* lock, adapter.is_session_expired()) are part of the surrounding action. *)
(* RateLimiter.acquire is seen here only as a suspension of any finite     *)
(* length (pc "acquire"); its own state is modelled in SpecRL.             *)
(***************************************************************************)
Holding == { "wait_session", "is_completed", "acquire", "mark_in_progress",
             "download", "lock_wait", "locked", "prompt",
             "mark_completed", "mark_failed" }

InHandler == { "lock_wait", "locked", "prompt" }

\* record = queue.get_nowait() / except QueueEmpty: break, page.close(), return;
\* then await self._session_ok.wait(), which does not suspend when the event is set
TakeNext(me, q, gate) ==
    IF q = << >>
    THEN [me EXCEPT !.pc = "done"]
    ELSE [me EXCEPT !.pc = IF gate THEN "is_completed" ELSE "wait_session",
                    !.record = Head(q), !.attempt = 0]

\* the queue after get_nowait()
RestOf(q) == IF q = << >> THEN q ELSE Tail(q)

\* await queue.put(record) in _handle_session_timeout
Requeue_drop(q, rec) == q
Requeue(q, rec) == Append(q, rec)

\* asyncio.Event.set(): every task waiting on the event is made runnable
WakeWaiters_none(wkf) == wkf
WakeWaiters(wkf) ==
    [v \in Workers |-> IF wkf[v].pc = "wait_session"
                       THEN [wkf[v] EXCEPT !.pc = "is_completed"]
                       ELSE wkf[v]]

\* asyncio.Lock.release(): the first waiter is made runnable and owns the lock
ReleaseLock(lock) ==
    IF lock.waiters = << >>
    THEN [holder |-> 0, waiters |-> << >>]
    ELSE [holder |-> Head(lock.waiters), waiters |-> Tail(lock.waiters)]

GrantLock_none(wkf, lock) == wkf
GrantLock(wkf, lock) ==
    IF lock.waiters = << >> THEN wkf
    ELSE [wkf EXCEPT ![Head(lock.waiters)].pc = "locked"]

\* page = await self.context.new_page() returns; the worker enters its loop
WorkerStart(w) ==
    /\ wk[w].pc = "new_page"
    /\ wk' = [wk EXCEPT ![w] = TakeNext(wk[w], queue, session_ok)]
    /\ queue' = RestOf(queue)
    /\ UNCHANGED << documents, run_state, run, session_ok, reauth_lock, env, hist >>
    /\ UNCHANGED << rt, clock, rl, dbcall >>

\* the record is not completed: the worker goes on to await rate_limiter.acquire()
AfterRecheck_unthrottled(me) == [me EXCEPT !.pc = "mark_in_progress"]
AfterRecheck(me) == [me EXCEPT !.pc = "acquire"]

\* if await self.db.is_completed(record.id): skipped += 1; task_done(); continue
\* else: await self.rate_limiter.acquire()
CheckCompleted(w) ==
    /\ wk[w].pc = "is_completed"
    /\ IF is_completed(documents, wk[w].record.id)
       THEN /\ wk' = [wk EXCEPT ![w] =
                        TakeNext([wk[w] EXCEPT !.skipped = @ + 1], queue, session_ok)]
            /\ queue' = RestOf(queue)
            /\ hist' = [hist EXCEPT !.finalised = BagAdd(@, wk[w].record)]
       ELSE /\ wk' = [wk EXCEPT ![w] = AfterRecheck(wk[w])]
            /\ UNCHANGED << queue, hist >>
    /\ UNCHANGED << documents, run_state, run, session_ok, reauth_lock, env >>
    /\ UNCHANGED << rt, clock, rl, dbcall >>

\* await self.rate_limiter.acquire() returns; await self.db.mark_in_progress(...)
Acquired(w) ==
    /\ wk[w].pc = "acquire"
    /\ wk' = [wk EXCEPT ![w].pc = "mark_in_progress"]
    /\ UNCHANGED << documents, run_state, run, queue, session_ok, reauth_lock, env, hist >>
    /\ UNCHANGED << rt, clock, rl, dbcall >>

\* a call of with_retry starts its own "for attempt in range(1, max_attempts + 1)":
\* nothing of an earlier call for the same record is carried over
FirstAttempt_spent(me) == max_attempts
FirstAttempt(me) == 1

\* mark_in_progress takes effect; with_retry starts and invokes the download
MarkInProgress(w) ==
    /\ wk[w].pc = "mark_in_progress"
    /\ documents' = mark_in_progress(documents, wk[w].record.id)
    /\ wk' = [wk EXCEPT ![w].pc = "download", ![w].attempt = FirstAttempt(wk[w])]
    /\ UNCHANGED << run_state, run, queue, session_ok, reauth_lock, env, hist >>
    /\ UNCHANGED << rt, clock, rl, dbcall >>

\* the body of "async with self._reauth_lock", entered by w owning the lock
HandlerBody(w, me, lock, h) ==
    IF session_ok
    THEN \* first responder: clear the gate and prompt
         /\ session_ok' = FALSE
         /\ wk' = [wk EXCEPT ![w] = [me EXCEPT !.pc = "prompt"]]
         /\ reauth_lock' = lock
         /\ hist' = [h EXCEPT !.prompts = @ + 1, !.closes[w] = @ + 1]
         /\ UNCHANGED << queue, env >>
    ELSE \* another worker is prompting: re-queue, leave the lock, task_done, continue
         LET q1 == Requeue(queue, me.record) IN
         /\ wk' = [GrantLock(wk, lock) EXCEPT ![w] = TakeNext(me, q1, session_ok)]
         /\ queue' = RestOf(q1)
         /\ reauth_lock' = ReleaseLock(lock)
         /\ hist' = h
         /\ UNCHANGED << session_ok, env >>

\* _handle_session_timeout(record, queue): take the lock or wait for it
HandleSessionTimeout(w, me, h0) ==
    LET h == [h0 EXCEPT !.closes[w] = 0, !.opens[w] = 0, !.anyError = TRUE] IN
    IF reauth_lock.holder = 0
    THEN HandlerBody(w, me, [reauth_lock EXCEPT !.holder = w], h)
    ELSE /\ wk' = [wk EXCEPT ![w] = [me EXCEPT !.pc = "lock_wait"]]
         /\ reauth_lock' = [reauth_lock EXCEPT !.waiters = Append(@, w)]
         /\ hist' = h
         /\ UNCHANGED << queue, session_ok, env >>

\* the worker's locals on entering the session-expiry branch: no tally is touched
OnSessionExpired_counted(me) == [me EXCEPT !.failed = @ + 1]
OnSessionExpired(me) == me

\* one invocation of adapter.download_document by with_retry ends.  With the
\* session expired it raises and leaves the page on the login URL; otherwise it
\* returns the saved path or raises a transient error.
Download(w) ==
    /\ wk[w].pc = "download"
    /\ \E ok \in BOOLEAN :
         LET h == [hist EXCEPT !.invoked = BagAdd(@, wk[w].record.id)] IN
         /\ ok => env.valid
         /\ IF ok
            THEN \* with_retry returns path; await self.db.mark_completed(...)
                 /\ wk' = [wk EXCEPT ![w].pc = "mark_completed"]
                 /\ hist' = h
                 /\ UNCHANGED << queue, session_ok, reauth_lock, env >>
            ELSE IF wk[w].attempt # max_attempts
            THEN \* with_retry sleeps the back-off delay and invokes fn again
                 /\ wk' = [wk EXCEPT ![w].attempt = @ + 1]
                 /\ hist' = [h EXCEPT !.anyError = TRUE]
                 /\ UNCHANGED << queue, session_ok, reauth_lock, env >>
            ELSE IF ~ env.valid
            THEN \* except: if await adapter.is_session_expired(): ...
                 HandleSessionTimeout(w, OnSessionExpired(wk[w]), h)
            ELSE \* await self.db.mark_failed(record.id, str(exc))
                 /\ wk' = [wk EXCEPT ![w].pc = "mark_failed"]
                 /\ hist' = [h EXCEPT !.anyError = TRUE]
                 /\ UNCHANGED << queue, session_ok, reauth_lock, env >>
    /\ UNCHANGED << documents, run_state, run >>
    /\ UNCHANGED << rt, clock, rl, dbcall >>

\* a worker that waited for _reauth_lock is scheduled with the lock
LockGranted(w) ==
    /\ wk[w].pc = "locked"
    /\ HandlerBody(w, wk[w], reauth_lock, hist)
    /\ UNCHANGED << documents, run_state, run >>
    /\ UNCHANGED << rt, clock, rl, dbcall >>

\* self._session_ok.set() at the end of the first responder's branch
SetGate_skipped(gate) == gate
SetGate(gate) == TRUE

\* _prompt_reauth returns (the human has logged in again): queue.put(record),
\* _session_ok.set(), the lock is released, task_done(), continue
PromptReturn(w) ==
    /\ wk[w].pc = "prompt"
    /\ LET q1 == Requeue(queue, wk[w].record) IN
       /\ session_ok' = SetGate(session_ok)
       /\ wk' = [GrantLock(WakeWaiters(wk), reauth_lock) EXCEPT
                    ![w] = TakeNext(wk[w], q1, SetGate(session_ok))]
       /\ queue' = RestOf(q1)
    /\ reauth_lock' = ReleaseLock(reauth_lock)
    /\ env' = [env EXCEPT !.valid = TRUE]
    /\ hist' = [hist EXCEPT !.opens[w] = @ + 1]
    /\ UNCHANGED << documents, run_state, run >>
    /\ UNCHANGED << rt, clock, rl, dbcall >>

\* mark_completed takes effect; downloaded += 1; await asyncio.sleep(jitter)
MarkCompleted(w) ==
    /\ wk[w].pc = "mark_completed"
    /\ documents' = mark_completed(documents, wk[w].record.id, "path", "ts")
    /\ wk' = [wk EXCEPT ![w].pc = "jitter", ![w].downloaded = @ + 1]
    /\ hist' = [hist EXCEPT !.finalised = BagAdd(@, wk[w].record)]
    /\ UNCHANGED << run_state, run, queue, session_ok, reauth_lock, env >>
    /\ UNCHANGED << rt, clock, rl, dbcall >>

\* after mark_failed: failed += 1, and the worker falls out of the except
\* clause to the inter-download sleep and the next turn of its loop
AfterFailed_stop(me) == [me EXCEPT !.pc = "done", !.failed = @ + 1]
AfterFailed(me) == [me EXCEPT !.pc = "jitter", !.failed = @ + 1]

\* mark_failed takes effect; failed += 1; await asyncio.sleep(jitter)
MarkFailed(w) ==
    /\ wk[w].pc = "mark_failed"
    /\ documents' = mark_failed(documents, wk[w].record.id, "transient")
    /\ wk' = [wk EXCEPT ![w] = AfterFailed(wk[w])]
    /\ hist' = [hist EXCEPT !.finalised = BagAdd(@, wk[w].record)]
    /\ UNCHANGED << run_state, run, queue, session_ok, reauth_lock, env >>
    /\ UNCHANGED << rt, clock, rl, dbcall >>

\* the inter-download sleep returns; task_done(); next turn of the loop
Jitter(w) ==
    /\ wk[w].pc = "jitter"
    /\ wk' = [wk EXCEPT ![w] = TakeNext(wk[w], queue, session_ok)]
    /\ queue' = RestOf(queue)
    /\ UNCHANGED << documents, run_state, run, session_ok, reauth_lock, env, hist >>
    /\ UNCHANGED << rt, clock, rl, dbcall >>

WorkerStep(w) ==
    \/ WorkerStart(w)
    \/ CheckCompleted(w)
    \/ Acquired(w)
    \/ MarkInProgress(w)
    \/ Download(w)
    \/ LockGranted(w)
    \/ PromptReturn(w)
    \/ MarkCompleted(w)
    \/ MarkFailed(w)
    \/ Jitter(w)

\* asyncio.gather returns: the tallies are summed and run returns them
Downloaded_first == wk[1].downloaded
Downloaded == SumSeq([w \in Workers |-> wk[w].downloaded])
Skipped    == SumSeq([w \in Workers |-> wk[w].skipped])
Failed     == SumSeq([w \in Workers |-> wk[w].failed])

RunReturn ==
    /\ run.pc = "workers"
    /\ \A w \in Workers : wk[w].pc = "done"
    /\ run' = [run EXCEPT !.pc = "returned",
                          !.result = << Downloaded, Skipped, Failed >>]
    /\ UNCHANGED << documents, run_state, queue, session_ok, reauth_lock, wk, env, hist >>
    /\ UNCHANGED << rt, clock, rl, dbcall >>

\* the portal invalidates the authenticated session
SessionExpires ==
    /\ run.pc = "workers"
    /\ env.valid
    /\ env.expiries < MaxExpiry
    /\ env' = [env EXCEPT !.valid = FALSE, !.expiries = @ + 1]
    /\ UNCHANGED << documents, run_state, run, queue, session_ok, reauth_lock, wk, hist >>
    /\ UNCHANGED << rt, clock, rl, dbcall >>

\* the process ends (killed, or run returned) and main._run is started again:
\* --reset-state empties the ledger, --resume starts at the persisted last_page
Restart ==
    /\ run.n < MaxRuns
    /\ \E resume \in BOOLEAN, reset_state \in BOOLEAN :
         LET docs == IF reset_state THEN reset(documents, run_state).documents
                                    ELSE documents
             rs   == IF reset_state THEN reset(documents, run_state).run_state
                                    ELSE run_state
             start_page == IF resume THEN get_last_page(rs) ELSE 1
         IN  /\ documents' = docs
             /\ run_state' = rs
             /\ NewProcess(run.n + 1, start_page, resume,
                           docs = NoDocuments /\ start_page = 1)
    /\ env' = [env EXCEPT !.valid = TRUE, !.expiries = 0]
    /\ UNCHANGED << rt, clock, rl, dbcall >>

\* what the portal may list when the next process looks at it: the listing as
\* it was, or one that has become shorter
PortalListings == Listings \cup { << << "a", "b" >> >> }

\* main._run started again after the portal's listing may have changed
RestartPortal ==
    /\ run.n < MaxRuns
    /\ \E resume \in BOOLEAN, reset_state \in BOOLEAN, listing \in PortalListings :
         LET docs == IF reset_state THEN reset(documents, run_state).documents
                                    ELSE documents
             rs   == IF reset_state THEN reset(documents, run_state).run_state
                                    ELSE run_state
             start_page == IF resume THEN get_last_page(rs) ELSE 1
         IN  /\ documents' = docs
             /\ run_state' = rs
             /\ NewProcess(run.n + 1, start_page, resume,
                           docs = NoDocuments /\ start_page = 1)
             /\ env' = [listing |-> listing, valid |-> TRUE, expiries |-> 0]
    /\ UNCHANGED << rt, clock, rl, dbcall >>


(***************************************************************************)
(* Specifications                                                          *)
(***************************************************************************)
RetryUnused == rt = RetryIdle
RLUnused    == clock = 0 /\ rl = RLIdle

\* the state of a process that has not been started (SpecRetry, SpecRL)
MainUnused ==
    /\ documents = NoDocuments
    /\ run_state = << >>
    /\ run = [pc |-> "off"]
    /\ queue = << >>
    /\ session_ok = TRUE
    /\ reauth_lock = [holder |-> 0, waiters |-> << >>]
    /\ wk = [w \in Workers |-> IdleWorker]
    /\ env = [listing |-> << >>, valid |-> TRUE, expiries |-> 0]
    /\ hist = NoHistory

\* a first run on an empty ledger: main._run without --resume, or with it
InitMain ==
    /\ documents = NoDocuments
    /\ run_state = << >>
    /\ run = [ pc |-> "start", n |-> 1, start_page |-> get_last_page(<< >>),
               resume |-> FALSE, fresh |-> TRUE,
               page_num |-> 0, cur_page |-> 0, records |-> << >>,
               total |-> 0, result |-> << >> ]
    /\ queue = << >>
    /\ session_ok = TRUE
    /\ reauth_lock = [holder |-> 0, waiters |-> << >>]
    /\ wk = [w \in Workers |-> IdleWorker]
    /\ env \in [listing : Listings, valid : {TRUE}, expiries : {0}]
    /\ hist = NoHistory

Init == InitMain /\ RetryUnused /\ RLUnused /\ DbUnused

Scrape == ScrapeStart \/ ScrapePage \/ ScrapeRecord \/ ScrapeNext

Next ==
    \/ ScrapeStart
    \/ ScrapePage
    \/ ScrapeRecord
    \/ ScrapeNext
    \/ \E w \in Workers : WorkerStart(w)
    \/ \E w \in Workers : CheckCompleted(w)
    \/ \E w \in Workers : Acquired(w)
    \/ \E w \in Workers : MarkInProgress(w)
    \/ \E w \in Workers : Download(w)
    \/ \E w \in Workers : LockGranted(w)
    \/ \E w \in Workers : PromptReturn(w)
    \/ \E w \in Workers : MarkCompleted(w)
    \/ \E w \in Workers : MarkFailed(w)
    \/ \E w \in Workers : Jitter(w)
    \/ RunReturn
    \/ SessionExpires

\* one process, from an empty ledger
Spec == Init /\ [][Next]_vars

\* the event loop runs every runnable coroutine (FIFO ready queue), and every
\* awaited call (db, download, sleep, prompt) returns
SpecLive ==
    /\ Init
    /\ [][Next]_vars
    /\ WF_vars(Scrape)
    /\ \A w \in Workers : WF_vars(WorkerStep(w))
    /\ WF_vars(RunReturn)

\* processes started one after the other on the same ledger, the session
\* staying valid throughout
NextResume ==
    \/ ScrapeStart
    \/ ScrapePage
    \/ ScrapeRecord
    \/ ScrapeNext
    \/ \E w \in Workers : WorkerStart(w)
    \/ \E w \in Workers : CheckCompleted(w)
    \/ \E w \in Workers : Acquired(w)
    \/ \E w \in Workers : MarkInProgress(w)
    \/ \E w \in Workers : Download(w)
    \/ \E w \in Workers : MarkCompleted(w)
    \/ \E w \in Workers : MarkFailed(w)
    \/ \E w \in Workers : Jitter(w)
    \/ RunReturn
    \/ Restart

SpecResume == Init /\ [][NextResume]_vars

\* processes started one after the other on the same ledger while the portal's
\* listing changes between them
NextPortal ==
    \/ ScrapeStart
    \/ ScrapePage
    \/ ScrapeRecord
    \/ ScrapeNext
    \/ \E w \in Workers : WorkerStart(w)
    \/ \E w \in Workers : CheckCompleted(w)
    \/ \E w \in Workers : Acquired(w)
    \/ \E w \in Workers : MarkInProgress(w)
    \/ \E w \in Workers : Download(w)
    \/ \E w \in Workers : MarkCompleted(w)
    \/ \E w \in Workers : MarkFailed(w)
    \/ \E w \in Workers : Jitter(w)
    \/ RunReturn
    \/ RestartPortal

SpecPortal == Init /\ [][NextPortal]_vars

InitRetry == InitRetryCall /\ RLUnused /\ MainUnused /\ DbUnused

NextRetry == RetryStart \/ RetryCall \/ RetrySleep

SpecRetry == InitRetry /\ [][NextRetry]_vars

InitRL == InitRateLimiter /\ RetryUnused /\ MainUnused /\ DbUnused

NextRL ==
    \/ \E c \in Callers : RLCall(c)
    \/ \E c \in Callers : RLEnter(c)
    \/ \E c \in Callers : RLWake(c)
    \/ Tick

SpecRL == InitRL /\ [][NextRL]_vars

\* time without end, the event loop running every runnable caller (a woken
\* lock waiter, a caller whose sleep is over); no caller is obliged to call
NextRLLive ==
    \/ \E c \in Callers : RLCall(c)
    \/ \E c \in Callers : RLEnter(c)
    \/ \E c \in Callers : RLWake(c)
    \/ Tick
    \/ TickShift

SpecRLLive ==
    /\ InitRL
    /\ [][NextRLLive]_vars
    /\ WF_vars(Tick)
    /\ WF_vars(TickShift)
    /\ \A c \in Callers : WF_vars(RLEnter(c)) /\ WF_vars(RLWake(c))

\* workers that each acquire one slot per record and then download with retries
NextThrottle ==
    \/ \E c \in Callers : ThAcquire(c)
    \/ \E c \in Callers : RLEnter(c)
    \/ \E c \in Callers : RLWake(c)
    \/ \E c \in Callers : ThInvoke(c)
    \/ Tick

SpecThrottle == InitRL /\ [][NextThrottle]_vars

\* the ledger with a client of its own: no process, no retry call, no limiter
ProcessUnused ==
    /\ run = [pc |-> "off"]
    /\ queue = << >>
    /\ session_ok = TRUE
    /\ reauth_lock = [holder |-> 0, waiters |-> << >>]
    /\ wk = [w \in Workers |-> IdleWorker]
    /\ env = [listing |-> << >>, valid |-> TRUE, expiries |-> 0]
    /\ hist = NoHistory

InitDB == InitDb /\ ProcessUnused /\ RetryUnused /\ RLUnused

NextDB ==
    \/ DbRegister
    \/ DbMarkInProgress
    \/ DbMarkCompleted
    \/ DbMarkFailed
    \/ DbSetLastPage

SpecDB == InitDB /\ [][NextDB]_vars

\* the same client, also calling reset
NextDBReset ==
    \/ DbRegister
    \/ DbMarkInProgress
    \/ DbMarkCompleted
    \/ DbMarkFailed
    \/ DbSetLastPage
    \/ DbReset

SpecDBReset == InitDB /\ [][NextDBReset]_vars


(***************************************************************************)
(* Properties                                                              *)
(***************************************************************************)
AllIds == UNION { UNION { SeqToSet(l[p]) : p \in 1..Len(l) } : l \in Listings }

HeldBy(w, r) == wk[w].pc \in Holding /\ wk[w].record = r

Holders(r) == { w \in Workers : HeldBy(w, r) }

\* C1: every session expiry (incident) leads to at most one execution of
\* _prompt_reauth, however many workers enter _handle_session_timeout for it:
\* the prompts executed never outnumber the incidents.
C1_SinglePrompt ==
    DistinctIds(env.listing) => hist.prompts <= env.expiries

\* C2: when run returns from a fresh run over pairwise distinct ids,
\* downloaded + skipped + failed equals the number R of listed records; and
\* when no download attempt failed, the tallies are (R, 0, 0).
C2_NoDoubleCountNoLoss ==
    (run.pc = "returned" /\ run.fresh /\ DistinctIds(env.listing)) =>
        LET R == Len(AllListed(env.listing, 1)) IN
        /\ run.result[1] + run.result[2] + run.result[3] = R
        /\ ~ hist.anyError => run.result = << R, 0, 0 >>

C2_Witness ==
    /\ run.pc = "returned" /\ run.fresh /\ DistinctIds(env.listing)
    /\ run.result[1] > 0 /\ run.result[3] > 0
    /\ hist.prompts > 0

\* C3: at every time t, at most max_calls acquisitions completed in the
\* rolling window (t - window, t], whatever the callers do.
C3_RateBound ==
    \A t \in 0..MaxTime : Cardinality(AcquiredIn(t)) <= rl.max_calls

\* two callers contend, and the limiter has made one of them sleep out the window
C3_Witness ==
    /\ Len(rl.log) > rl.max_calls
    /\ rl.waiters # << >>
    /\ \E c \in Callers : rl.pc[c] = "sleep"

\* C4: every record _scrape_all put on the queue is in exactly one place: in
\* the queue, held by exactly one worker, or finalised (counted once as
\* downloaded, skipped or failed).
C4_NoRecordLost ==
    \A r \in SeqToSet(hist.scraped) :
        CountIn(queue, r) + Cardinality(Holders(r)) + BagCount(hist.finalised, r)
            = CountIn(hist.scraped, r)

\* a record whose download hit the expiry is back in the queue after the prompt
C4_Witness ==
    /\ hist.prompts > 0
    /\ session_ok
    /\ \E i \in 1..Len(queue) :
          /\ documents[queue[i].id].status = STATUS_IN_PROGRESS
          /\ Holders(queue[i]) = {}

\* the step by which worker w leaves _handle_session_timeout for record Y
LeavesHandler(w) == wk[w].pc \in InHandler /\ wk'[w].pc \notin InHandler

C6_NoStartWhileGateClosed ==
    [][ DistinctIds(env.listing) =>
          \A w \in Workers :
            (wk[w].pc = "mark_in_progress" /\ wk'[w].pc = "download") => session_ok ]_vars

\* C7: when a run resumed at the persisted last_page returns and no download
\* attempt failed in it, every document of the ledger is completed.
C7_ResumeCompleteness ==
    (run.pc = "returned" /\ run.resume /\ ~ hist.anyError
                          /\ DistinctIds(env.listing)) =>
        \A id \in DOMAIN documents : documents[id].status = STATUS_COMPLETED

NotCompleted(r) == ~ is_completed(documents, r.id)

ScrapeJustDone ==
    /\ run.pc = "workers"
    /\ \A w \in Workers : wk[w].pc = "new_page"

\* C8: when _scrape_all started at page 1 returns, every listed record's id is
\* registered, the queue holds exactly the listed records whose id is not
\* completed (each once, in listing order), and the total returned counts
\* every listed record.
C8_ScrapeFromPageOne ==
    (ScrapeJustDone /\ run.start_page = 1) =>
        LET all == AllListed(env.listing, 1) IN
        /\ \A i \in 1..Len(all) : all[i].id \in DOMAIN documents
        /\ queue = SelectSeq(all, NotCompleted)
        /\ run.total = Len(all)

\* a scrape over a ledger that already holds completed and uncompleted documents
C8_Witness ==
    /\ ScrapeJustDone /\ run.start_page = 1
    /\ queue # << >>
    /\ \E id \in DOMAIN documents : documents[id].status = STATUS_COMPLETED
    /\ run.total > Len(queue)

\* C9: an operation that fails exactly k-1 times and then succeeds, run with
\* max_attempts >= k, is invoked exactly k times and with_retry returns the
\* value of the k-th invocation.
C9_RetrySuccessCount ==
    \A k \in 1..MaxAttemptsR :
        ( /\ RetryFinished
          /\ rt.max_attempts >= k
          /\ \A i \in 1..(k - 1) : rt.op[i] = "err"
          /\ rt.op[k] = "ok" )
        => (rt.pc = "returned" /\ rt.calls = k /\ rt.result = k)

C9_Witness ==
    /\ rt.pc = "returned" /\ rt.calls = 3 /\ rt.result = 3
    /\ rt.max_attempts = 3

\* C10: an operation that always fails, run with max_attempts = m >= 1, is
\* invoked exactly m times and with_retry raises the error of the m-th
\* invocation.
C10_RetryExhaustion ==
    \A m \in 1..MaxAttemptsR :
        ( /\ RetryFinished
          /\ rt.max_attempts = m
          /\ \A i \in 1..m : rt.op[i] = "err" )
        => (rt.pc = "raised" /\ rt.calls = m /\ rt.raised = m)

C10_Witness ==
    /\ rt.pc = "raised" /\ rt.max_attempts = 3 /\ rt.calls = 3 /\ rt.raised = 3


\* C11: for every max_attempts it is called with, with_retry invokes the
\* operation at least once, and an error it raises is the error raised by the
\* operation's most recent invocation (never one with_retry made up itself).
C11_NoSynthesizedError ==
    RetryFinished =>
        /\ rt.calls >= 1
        /\ rt.pc = "raised" =>
              /\ rt.raised # NoAttemptsMade
              /\ rt.raised = rt.calls
              /\ rt.op[rt.calls] = "err"

\* C12: with_retry sleeps only between attempts: at every point the delays
\* slept so far are one per failed invocation that was followed (or is about
\* to be followed) by another attempt, and when the call has finished after
\* n >= 1 invocations exactly n - 1 delays were slept: none after the
\* successful attempt, none after the failure of attempt max_attempts.
C12_DelaysBetweenAttempts ==
    /\ rt.pc = "call"  => Len(rt.delays) = rt.calls
    /\ rt.pc = "sleep" => Len(rt.delays) = rt.calls /\ rt.calls < rt.max_attempts
    /\ (RetryFinished /\ rt.calls >= 1) => Len(rt.delays) = rt.calls - 1
    /\ (RetryFinished /\ rt.calls = 0)  => rt.delays = << >>

\* both endings with a delay before them: success on a later attempt, and
\* exhaustion of three or more attempts
C12_Witness ==
    \/ rt.pc = "returned" /\ rt.calls = 3 /\ Len(rt.delays) = 2
    \/ rt.pc = "raised" /\ rt.calls = rt.max_attempts /\ rt.calls >= 3
          /\ Len(rt.delays) = rt.calls - 1

\* C13: the delay slept after the k-th failure is
\* min(base_delay * 2^(k-1), max_delay) with jitter disabled, and with jitter
\* enabled lies between 0.5 and 1.5 times that value; for base_delay 1 s and
\* max_delay 60 s the first two delays lie in [0.5, 1.5] s and [1.0, 3.0] s.
C13_DelaySchedule ==
    /\ \A k \in 1..Len(rt.delays) :
          LET d == Min(rt.base_delay * Pow2(k - 1), rt.max_delay) IN
          IF rt.jitter
          THEN 2 * rt.delays[k] >= d /\ 2 * rt.delays[k] <= 3 * d
          ELSE rt.delays[k] = d
    /\ (rt.pc # "idle" /\ rt.base_delay = 1000 /\ rt.max_delay = 60000) =>
          /\ Len(rt.delays) >= 1 => rt.delays[1] \in 500..1500
          /\ Len(rt.delays) >= 2 => rt.delays[2] \in 1000..3000

\* a third delay that the cap has cut (2000 * 4 > 3000), and a jittered
\* second delay at the lower edge of its range
C13_Witness ==
    \/ /\ rt.pc = "raised" /\ ~ rt.jitter /\ rt.base_delay = 2000
        /\ rt.max_delay = 3000 /\ rt.delays = << 2000, 3000, 3000 >>
    \/ /\ rt.pc = "returned" /\ rt.jitter /\ rt.base_delay = 1000
        /\ rt.max_delay = 60000 /\ Len(rt.delays) = 2 /\ rt.delays[2] = 1000


\* C14: a call of register_document with an id that already has a row,
\* whatever calls were made since the first one and whatever fields and time
\* the second call carries, leaves the table as it was: still the one row for
\* that id (id is the key), with its descriptive fields, status, attempts and
\* timestamps unchanged.
C14_IdempotentRegistration ==
    [][ ( /\ dbcall'.n = dbcall.n + 1
          /\ dbcall'.op = "register_document"
          /\ dbcall'.id \in DOMAIN documents )
        => /\ documents' = documents
           /\ run_state' = run_state ]_vars

\* a second registration of "a" with the other page and row, after "a" was
\* taken in progress and completed
C14_Witness ==
    /\ dbcall.op = "register_document" /\ dbcall.id = "a" /\ dbcall.page = 2
    /\ "a" \in DOMAIN documents
    /\ documents["a"].status = STATUS_COMPLETED
    /\ documents["a"].attempts = 1
    /\ documents["a"].listing_page = 1

\* C18: attempts never decreases; mark_in_progress raises the attempts of its
\* row by exactly 1 and register_document, mark_completed, mark_failed and
\* set_last_page leave every row's attempts unchanged (and remove no row).
C18_AttemptsMonotone ==
    [][ \A id \in DOMAIN documents :
          /\ id \in DOMAIN documents'
          /\ documents'[id].attempts >= documents[id].attempts
          /\ documents'[id].attempts =
                documents[id].attempts +
                (IF /\ dbcall'.n = dbcall.n + 1
                    /\ dbcall'.op = "mark_in_progress"
                    /\ dbcall'.id = id
                 THEN 1 ELSE 0) ]_vars

\* a row taken in progress twice and then marked failed keeps attempts = 2
C18_Witness ==
    /\ dbcall.op = "mark_failed" /\ dbcall.id = "a"
    /\ "a" \in DOMAIN documents
    /\ documents["a"].attempts = 2
    /\ documents["a"].status = STATUS_FAILED


\* C15: in every ledger state the coordinator and the workers reach, a row's
\* completed_at is non-null exactly when its status is completed, and so is
\* its file_path.
C15_CompletedAtIffCompleted ==
    \A id \in DOMAIN documents :
        /\ documents[id].completed_at # NULL <=> documents[id].status = STATUS_COMPLETED
        /\ documents[id].file_path # NULL <=> documents[id].status = STATUS_COMPLETED


\* C16: every write to a ledger row during a run is one of
\* pending -> in_progress (with attempts + 1), in_progress -> completed,
\* in_progress -> failed; no failed -> in_progress, in_progress -> in_progress
\* or completed -> in_progress is performed.
C16_OnlyThreeTransitions ==
    [][ DistinctIds(env.listing) =>
        \A id \in DOMAIN documents \cap DOMAIN documents' :
            documents'[id] # documents[id] =>
                /\ << documents[id].status, documents'[id].status >> \in
                      { << STATUS_PENDING, STATUS_IN_PROGRESS >>,
                        << STATUS_IN_PROGRESS, STATUS_COMPLETED >>,
                        << STATUS_IN_PROGRESS, STATUS_FAILED >> }
                /\ documents'[id].status = STATUS_IN_PROGRESS =>
                      documents'[id].attempts = documents[id].attempts + 1 ]_vars


\* C17: after a run, a row's persisted attempts equals the number of download
\* attempts made for that document, each invocation of download_document by
\* with_retry being one attempt.
C17_AttemptsCountInvocations ==
    (run.pc = "returned" /\ run.fresh /\ DistinctIds(env.listing)) =>
        \A id \in DOMAIN documents :
            documents[id].attempts = BagCount(hist.invoked, id)


\* C19: when a download fails and the session is found expired, from that
\* step until the worker leaves _handle_session_timeout none of its
\* downloaded / skipped / failed tallies changes and the record's row is not
\* written (it stays in_progress, never failed); the record is off the queue
\* while the worker is in the handler and on leaving it is there exactly once
\* (or already taken again by exactly one worker).  Every processing of a
\* record starts with_retry at attempt 1 and gives up only at attempt
\* max_attempts, so a re-queued record gets the full budget again.
C19_ExpiryLeavesAccounting ==
    [][ DistinctIds(env.listing) =>
        \A w \in Workers :
            LET Y == wk[w].record IN
            /\ ( \/ wk[w].pc = "download" /\ wk'[w].pc \in InHandler
                 \/ wk[w].pc \in InHandler )
               => /\ wk'[w].downloaded = wk[w].downloaded
                  /\ wk'[w].skipped = wk[w].skipped
                  /\ wk'[w].failed = wk[w].failed
                  /\ documents[Y.id].status = STATUS_IN_PROGRESS
                  /\ documents'[Y.id] = documents[Y.id]
                  /\ IF wk'[w].pc \in InHandler
                     THEN CountIn(queue', Y) = 0
                     ELSE CountIn(queue', Y) + Cardinality({ v \in Workers :
                              wk'[v].pc \in Holding /\ wk'[v].record = Y }) = 1
            /\ (wk[w].pc = "mark_in_progress" /\ wk'[w].pc = "download")
               => wk'[w].attempt = 1
            /\ (wk[w].pc = "download" /\ wk'[w].pc \in InHandler \cup {"mark_failed"})
               => wk[w].attempt = max_attempts ]_vars

\* a record that used up max_attempts invocations on the expired session was
\* downloaded in a later round, more than max_attempts invocations in all,
\* and nothing was counted failed
C19_Witness ==
    /\ DistinctIds(env.listing)
    /\ hist.prompts >= 1
    /\ \A w \in Workers : wk[w].failed = 0
    /\ \A id \in DOMAIN documents : documents[id].status # STATUS_FAILED
    /\ \E id \in DOMAIN documents :
          /\ BagCount(hist.invoked, id) > max_attempts
          /\ documents[id].status = STATUS_COMPLETED


\* C20: when a download has exhausted its retries with the session valid, the
\* worker marks the record failed with the error text, adds one to failed and
\* nothing else, and goes on with its loop, no other worker being touched;
\* after any such failure every worker still comes to the end of the queue:
\* the run returns with the queue empty and every enqueued record counted.
C20_FailureContained ==
    /\ [][ \A w \in Workers :
              (wk[w].pc = "mark_failed" /\ wk'[w] # wk[w]) =>
                  LET id == wk[w].record.id IN
                  /\ documents'[id].status = STATUS_FAILED
                  /\ documents'[id].last_error # NULL
                  /\ \A i \in DOMAIN documents \ {id} : documents'[i] = documents[i]
                  /\ wk'[w] = [wk[w] EXCEPT !.pc = "jitter", !.failed = @ + 1]
                  /\ \A v \in Workers \ {w} : wk'[v] = wk[v]
                  /\ queue' = queue ]_vars
    /\ \A w \in Workers :
          (wk[w].pc = "mark_failed") ~>
             ( /\ run.pc = "returned"
               /\ queue = << >>
               /\ \A v \in Workers : wk[v].pc = "done"
               /\ \A r \in SeqToSet(hist.scraped) :
                     BagCount(hist.finalised, r) = CountIn(hist.scraped, r) )

\* a worker that has counted a failure is downloading its next record while
\* the failed row stays failed
C20_Witness ==
    \E w \in Workers :
        /\ wk[w].failed >= 1
        /\ wk[w].pc = "download"
        /\ \E id \in DOMAIN documents :
              /\ id # wk[w].record.id
              /\ documents[id].status = STATUS_FAILED
              /\ documents[id].last_error = "transient"


\* C21: with every download call and every prompt returning and finitely many
\* session expiries, every worker eventually terminates and run returns; what
\* it returns are the summed tallies of the workers, and the queue is empty
\* then, also when some documents have permanently failed.
C21_RunTerminates ==
    /\ <>(run.pc = "returned")
    /\ [](run.pc = "returned" =>
            /\ \A w \in Workers : wk[w].pc = "done"
            /\ queue = << >>
            /\ run.result = << Downloaded, Skipped, Failed >>)

\* a run that returned after a session expiry, with a failed document and a
\* downloaded one
C21_Witness ==
    /\ run.pc = "returned"
    /\ hist.prompts >= 1
    /\ run.result[1] >= 1
    /\ run.result[3] >= 1


\* C22: across all workers, the download invocations started within any
\* rolling window (the retries made by with_retry included) are at most
\* max_calls.
C22_DownloadRateBound ==
    \A t \in 0..MaxTime : Cardinality(InvokedIn(t)) <= rl.max_calls


\* C23: once a row's status is completed, no worker afterwards (in the same
\* run) sets it to in_progress or invokes the download for that id, also when
\* the id is on the queue more than once and two workers handle the copies.
C23_CompletedNeverReprocessed ==
    [][ \A id \in DOMAIN documents :
          (run'.n = run.n /\ documents[id].status = STATUS_COMPLETED) =>
              /\ documents'[id].status = STATUS_COMPLETED
              /\ BagCount(hist'.invoked, id) = BagCount(hist.invoked, id) ]_vars


\* C24: acquire is starvation-free: with concurrent callers, time advancing
\* and fair scheduling of the waiting callers, every call of acquire (waiting
\* for the lock, holding it, or asleep in it) eventually returns.
C24_AcquireReturns ==
    \A c \in Callers : (rl.pc[c] # "idle") ~> (rl.pc[c] = "idle")

\* one caller asleep inside the lock with the window full while the other
\* waits for the lock behind it
C24_Witness ==
    \E c, d \in Callers :
        /\ rl.pc[c] = "sleep" /\ rl.holder = c
        /\ rl.pc[d] = "lock_wait" /\ rl.waiters = << d >>
        /\ Len(rl.slots) = rl.max_calls


\* _scrape_all has been called and has not returned
Scraping == run.pc \in {"start", "page", "records"}

\* C25: while _scrape_all is still registering or enqueuing records no worker
\* exists yet: nothing has been dequeued (the queue is exactly what the scrape
\* has put), no download has been invoked, and no step marks a row (rows are
\* only added, existing rows stay as they are).
C25_ScrapeBeforeWorkers ==
    /\ [](Scraping =>
            /\ \A w \in Workers : wk[w] = IdleWorker
            /\ queue = hist.scraped
            /\ hist.invoked = EmptyBag
            /\ hist.finalised = EmptyBag)
    /\ [][ (Scraping /\ run'.n = run.n) =>
              \A id \in DOMAIN documents :
                  id \in DOMAIN documents' /\ documents'[id] = documents[id] ]_vars

\* the scrape is at its second page with records of the first page enqueued
\* and waiting
C25_Witness ==
    /\ Scraping
    /\ run.page_num = 2
    /\ Len(queue) >= 2
    /\ \A id \in DOMAIN documents : documents[id].status = STATUS_PENDING


\* C26: after reset, whatever calls came before, the ledger is as it was when
\* new: no document is registered (is_completed is false and get_attempts is
\* 0 for every id, every count of the summary is 0) and get_last_page returns
\* the default 1.
C26_ResetToInitial ==
    dbcall.op = "reset" =>
        /\ documents = NoDocuments
        /\ \A id \in DbIds : ~ is_completed(documents, id)
                               /\ get_attempts(documents, id) = 0
        /\ get_summary(documents) =
              [completed |-> 0, failed |-> 0, in_progress |-> 0, pending |-> 0]
        /\ get_last_page(run_state) = 1
        /\ run_state = << >>

\* a reset of a ledger that held two rows and a run state
C26_Witness ==
    /\ dbcall.op = "reset"
    /\ dbcall.rows = 2
    /\ dbcall.n = MaxDbCalls
    /\ documents = NoDocuments


\* C27: a worker reaches each step of an item only from the step before it:
\* after the dequeue it waits for the gate or finds it open; is_completed is
\* read only with the gate seen open; the rate-limit slot is asked for only
\* after is_completed was read as false; mark_in_progress follows the
\* acquired slot; and the download is first invoked only right after that
\* worker's mark_in_progress for the same record.
C27_WorkerStepOrder ==
    [][ \A w \in Workers :
          LET from == wk[w].pc
              to   == wk'[w].pc
              same == wk'[w].record = wk[w].record
          IN
          /\ (to = "wait_session" /\ from # to) => ~ session_ok'
          /\ (to = "is_completed" /\ (from # to \/ ~ same)) => session_ok'
          /\ (to = "acquire" /\ from # to) =>
                /\ from = "is_completed" /\ same
                /\ ~ is_completed(documents, wk[w].record.id)
          /\ (to = "mark_in_progress" /\ from # to) => from = "acquire" /\ same
          /\ (to = "download" /\ from # to) =>
                /\ from = "mark_in_progress" /\ same
                /\ documents' = mark_in_progress(documents, wk[w].record.id)
          /\ (from = "download" /\ to = "download") => same
          /\ BagCount(hist'.invoked, wk[w].record.id) # BagCount(hist.invoked, wk[w].record.id)
                => \E v \in Workers : wk[v].pc = "download" /\ wk[v].record.id = wk[w].record.id
        ]_vars

\* after a re-auth, a worker that did not prompt is downloading a record it
\* took in progress once, the gate being open
C27_Witness ==
    /\ hist.prompts >= 1
    /\ session_ok
    /\ \E w \in Workers :
          /\ wk[w].pc = "download"
          /\ hist.closes[w] = 0
          /\ documents[wk[w].record.id].status = STATUS_IN_PROGRESS
          /\ documents[wk[w].record.id].attempts = 1


\* C28: during the scrape, whenever a record of listing page p is registered
\* or enqueued the persisted last_page is already p, and from one write of
\* the scrape to the next the persisted last_page never decreases (a run
\* started without --resume begins again at page 1 by its first write).
C28_ResumePointFirst ==
    /\ [](run.pc = "records" => run_state = << run.page_num >>)
    /\ [][ (Scraping /\ run'.n = run.n) =>
              /\ \A id \in DOMAIN documents' \ DOMAIN documents :
                    /\ run_state = << documents'[id].listing_page >>
                    /\ run_state' = run_state
              /\ Len(queue') > Len(queue) =>
                    /\ run_state = << queue'[Len(queue')].listing_page >>
                    /\ run_state' = run_state
              /\ \/ get_last_page(run_state') >= get_last_page(run_state)
                 \/ /\ ~ run.resume
                    /\ run.pc = "page" /\ run.page_num = 1
                    /\ run_state' = << 1 >> ]_vars

\* C28 as stated: the persisted last_page never decreases while a scrape
\* runs, whatever run it is.
C28_NeverDecreases ==
    [][ (Scraping /\ run'.n = run.n) =>
          get_last_page(run_state') >= get_last_page(run_state) ]_vars

\* a resumed run that started at page 2 is registering the records of page 2
\* with last_page = 2 persisted
C28_Witness ==
    /\ run.resume /\ run.start_page = 2
    /\ run.pc = "records" /\ run.records # << >>
    /\ Head(run.records).listing_page = 2
    /\ get_last_page(run_state) = 2


\* C29: a worker's mark_in_progress, mark_completed or mark_failed on the id
\* it holds, whatever the other workers are in the middle of, leaves every
\* row with another id as it was, leaves run_state (last_page) as it was and
\* leaves the set of rows as it was.
C29_RowIsolation ==
    [][ \A w \in Workers :
          ( /\ wk[w].pc \in {"mark_in_progress", "mark_completed", "mark_failed"}
            /\ wk'[w] # wk[w] ) =>
              /\ DOMAIN documents' = DOMAIN documents
              /\ \A id \in DOMAIN documents :
                    id # wk[w].record.id => documents'[id] = documents[id]
              /\ run_state' = run_state ]_vars

\* one worker has just finalised its row while another worker is between
\* mark_in_progress and its own final mark on a different id
C29_Witness ==
    \E w, v \in Workers :
        /\ w # v
        /\ wk[w].pc = "jitter" /\ wk[w].record.id \in DOMAIN documents
        /\ documents[wk[w].record.id].status \in {STATUS_COMPLETED, STATUS_FAILED}
        /\ wk[v].pc \in {"download", "mark_completed", "mark_failed"}
        /\ wk[v].record.id \in DOMAIN documents
        /\ wk[v].record.id # wk[w].record.id
        /\ documents[wk[v].record.id].status = STATUS_IN_PROGRESS


\* C30: the gate _session_ok is closed only while _reauth_lock is held by the
\* worker that closed it and that worker is still in its prompt; a step that
\* closes the gate is made by the lock's owner; the owner leaves the locked
\* region with the gate open; so the gate is open whenever the lock is free,
\* and whenever a worker becomes the lock's owner (before it has run, when it
\* took a free lock; once the lock is passed on, when it waited for it).
C30_GateLockCoupling ==
    /\ [](~ session_ok =>
            /\ reauth_lock.holder # 0
            /\ wk[reauth_lock.holder].pc = "prompt"
            /\ hist.closes[reauth_lock.holder] >= 1)
    /\ [](reauth_lock.holder = 0 => session_ok)
    /\ [](\A w \in Workers : wk[w].pc = "locked" =>
            reauth_lock.holder = w /\ session_ok)
    /\ [][ /\ (session_ok /\ ~ session_ok') =>
                /\ reauth_lock'.holder # 0
                /\ wk'[reauth_lock'.holder].pc = "prompt"
                /\ wk[reauth_lock'.holder].pc # "prompt"
           /\ reauth_lock'.holder # reauth_lock.holder =>
                /\ reauth_lock.holder # 0 => session_ok'
                /\ reauth_lock.holder = 0 => session_ok ]_vars

\* the worker that closed the gate has reopened it and released the lock, and
\* the worker that waited for the lock now owns it, the gate being open
C30_Witness ==
    /\ hist.prompts >= 1
    /\ session_ok
    /\ \E w \in Workers :
          /\ reauth_lock.holder = w
          /\ wk[w].pc = "locked"


\* C31: when a fresh run over pairwise distinct ids returns, no document the
\* run enqueued is pending or in_progress, the number of completed rows is the
\* downloaded tally it returns and the number of failed rows is its failed
\* tally.
C31_LedgerAgreesWithTallies ==
    (run.pc = "returned" /\ run.fresh /\ DistinctIds(env.listing)) =>
        /\ \A i \in 1..Len(hist.scraped) :
              /\ hist.scraped[i].id \in DOMAIN documents
              /\ documents[hist.scraped[i].id].status
                    \notin {STATUS_PENDING, STATUS_IN_PROGRESS}
        /\ get_summary(documents).completed = run.result[1]
        /\ get_summary(documents).failed = run.result[3]

\* a fresh run has returned after a session expiry with its re-queue, with
\* documents downloaded by both workers and a document failed
C31_Witness ==
    /\ run.pc = "returned" /\ run.fresh /\ DistinctIds(env.listing)
    /\ hist.prompts >= 1
    /\ \A w \in Workers : wk[w].downloaded + wk[w].failed >= 1
    /\ run.result[1] >= 1 /\ run.result[3] >= 1
    /\ Len(hist.scraped) = 3


\* C32: whatever start_page the scrape was given, while it is on a listing
\* page the page number it persists as last_page and passes to
\* get_documents_on_page is the number of the page the driver is on: the
\* loop's page_num is the driver's page, the records of the page are stamped
\* with it, and last_page holds it.
C32_PageNumberTruthful ==
    /\ run.pc \in {"page", "records"} => run.page_num = run.cur_page
    /\ run.pc = "records" =>
          /\ get_last_page(run_state) = run.cur_page
          /\ \A i \in 1..Len(run.records) :
                run.records[i].listing_page = run.cur_page


\* C33: in a run in which the ids the scrape enqueued are pairwise distinct,
\* no worker ever counts a skip, and the skipped tally the run returns is 0.
C33_NoSkipsWithoutDuplicates ==
    (\A i, j \in 1..Len(hist.scraped) :
        hist.scraped[i].id = hist.scraped[j].id => i = j) =>
        /\ \A w \in Workers : wk[w].skipped = 0
        /\ run.pc = "returned" => run.result[2] = 0

\* a run over three distinct ids has returned after a session expiry whose
\* record was re-queued and processed again, and after a failed document
C33_Witness ==
    /\ run.pc = "returned"
    /\ Len(hist.scraped) = 3
    /\ \A i, j \in 1..Len(hist.scraped) :
          hist.scraped[i].id = hist.scraped[j].id => i = j
    /\ hist.prompts >= 1 /\ env.expiries >= 1
    /\ \E id \in DOMAIN hist.invoked : hist.invoked[id] >= 2
    /\ run.result[2] = 0
    /\ run.result[1] + run.result[3] = 3


=============================================================================
